---- MODULE Spec2Model ----
(***************************************************************************)
(* Model of blind_tasting_red_wine.ipynb: the notebook's code cells, run   *)
(* top to bottom, as a state machine over the notebook's global names.     *)
(* Text values are TLA+ strings; a character of s is SubSeq(s, i, i).      *)
(* The fitting routines of the modelling library (TfidfVectorizer,         *)
(* MultinomialNB, SGDClassifier, GridSearchCV) are not part of the         *)
(* repository: a fit is modelled by its outcome, drawn from a bounded set  *)
(* (a vocabulary size, one weight row per class code, one predicted code   *)
(* per input).                                                             *)
(***************************************************************************)
EXTENDS Integers, Sequences, FiniteSets, TLC

VARIABLES
  pc,            \* index into CellOrder of the next step to run
  error,         \* "" or the exception that ended the run
  stages,        \* history: the steps run so far, in order
  raw,           \* history: the table as read by read_csv
  df,            \* the working table (a sequence of rows)
  df_red, df_white, df_spark,
  class_map,     \* list of <<prov_var, prov_var_code>>
  X, y,
  vectorizer, clf,
  feature_names,
  descriptors,   \* what the descriptor cell printed: per class, label and top features
  result,        \* predicted codes, one per test input
  prediction     \* the list printed by the prediction cell

vars == <<pc, error, stages, raw, df, df_red, df_white, df_spark, class_map,
          X, y, vectorizer, clf, feature_names, descriptors, result, prediction>>

-----------------------------------------------------------------------------
(* Bounds of the model *)

MaxRows == 3

MaxDescLen == 3

MaxFieldLen == 2

-----------------------------------------------------------------------------
(* Values *)

\* A missing cell. read_csv turns an empty field (and the text NaN) into NaN,
\* so no string cell of a loaded table is "" or "NaN".
NaN == "NaN"

isnull(v) == v = NaN

Range(s) == {s[i] : i \in DOMAIN s}

Char(s, i) == SubSeq(s, i, i)

-----------------------------------------------------------------------------
(* str.split(' '), ' '.join, and the regex replacement *)

\* a.split(' '): cut at every single space; n spaces give n + 1 tokens, and
\* ''.split(' ') is [''].
RECURSIVE split(_)
split(s) ==
  IF Len(s) = 0 THEN <<"">>
  ELSE LET r == split(SubSeq(s, 2, Len(s)))
       IN IF Char(s, 1) = " " THEN <<"">> \o r
          ELSE <<Char(s, 1) \o Head(r)>> \o Tail(r)

\* ' '.join(tokens)
RECURSIVE join(_)
join(toks) ==
  IF Len(toks) = 0 THEN ""
  ELSE IF Len(toks) = 1 THEN toks[1]
  ELSE toks[1] \o " " \o join(Tail(toks))

\* Variant: the class without the hyphen.
CommaAndPeriod == {".", ","}

\* The character class of the pattern '[\.\,\-]'
Punctuation == {".", ",", "-"}

\* re.sub('[\.\,\-]', ' ', s)
RECURSIVE re_sub(_)
re_sub(s) ==
  IF Len(s) = 0 THEN ""
  ELSE (IF Char(s, 1) \in Punctuation THEN " " ELSE Char(s, 1))
       \o re_sub(SubSeq(s, 2, Len(s)))

\* One cell under df.replace(..., regex = True): strings are rewritten,
\* numbers and NaN are left alone.
replace_cell(v) == IF isnull(v) THEN v ELSE re_sub(v)

\* Variant: the replacement applied to the description column alone.
ReplaceDescriptionOnly(t) ==
  [i \in DOMAIN t |-> [t[i] EXCEPT !.description = replace_cell(@)]]

\* df.replace('[\.\,\-]', ' ', regex = True, inplace = True): every string
\* column of the table, province and variety included.
replace(t) ==
  [i \in DOMAIN t |->
     [t[i] EXCEPT !.description = replace_cell(@),
                  !.province = replace_cell(@),
                  !.variety = replace_cell(@)]]

\* ' '.join(x for x in a.split(' ') if x not in set(b.split(' ')))
remove_tokens(a, b) ==
  join(SelectSeq(split(a), LAMBDA x : x \notin Range(split(b))))

\* Variant: the variety pass alone.
RemoveVarietyOnly(t) ==
  [i \in DOMAIN t |->
     [t[i] EXCEPT !.description = remove_tokens(@, t[i].variety)]]

\* Variant: the province pass reading the description as it was before the
\* variety pass, so that its result replaces the variety pass's.
RemoveProvinceFromOriginal(t) ==
  [i \in DOMAIN t |->
     [t[i] EXCEPT !.description = remove_tokens(@, t[i].province)]]

\* Variant: each description filtered against the varieties and provinces of
\* the whole table instead of its own row's.
RemoveTableTokens(t) ==
  LET all == UNION { Range(split(t[j].variety)) \cup Range(split(t[j].province)) :
                       j \in DOMAIN t }
  IN [i \in DOMAIN t |->
        [t[i] EXCEPT !.description =
           join(SelectSeq(split(@), LAMBDA x : x \notin all))]]

\* The two comprehensions: variety tokens first, then province tokens, the
\* second pass reading the description the first pass wrote.

RemovePasses(t) ==
  LET pass1 == [i \in DOMAIN t |->
                  [t[i] EXCEPT !.description = remove_tokens(@, t[i].variety)]]
  IN [i \in DOMAIN pass1 |->
        [pass1[i] EXCEPT !.description = remove_tokens(@, pass1[i].province)]]

\* Variant of the cell without its province pass.
FilterVarietyOnly(t) == RemoveVarietyOnly(replace(t))

\* The whole cell 72e71e67.
LeakageFilterTable(t) == RemovePasses(replace(t))

-----------------------------------------------------------------------------
(* Cleaner *)

\* Equality on df.columns.difference(['id']); pandas counts NaN equal to NaN here.
SameExceptId(r, s) ==
  \A c \in (DOMAIN r) \ {"id"} : r[c] = s[c]

\* Variant: equality on every column, id included (no subset given).
SameAllColumns(r, s) ==
  \A c \in DOMAIN r : r[c] = s[c]

IsDuplicate(r, s) == SameExceptId(r, s)

\* The rows of t whose index is in keep, in their order (a boolean mask)
KeepIndices(t, keep) ==
  LET F[i \in 0..Len(t)] ==
        IF i = 0 THEN << >>
        ELSE IF i \in keep THEN Append(F[i - 1], t[i]) ELSE F[i - 1]
  IN F[Len(t)]

\* Variant: keep = 'last'.
DropDuplicatesKeepLast(t) ==
  KeepIndices(t, {i \in DOMAIN t : ~ \E j \in (i + 1)..Len(t) : IsDuplicate(t[j], t[i])})

\* df.drop_duplicates(subset = <all but id>): keep = 'first'.
drop_duplicates(t) ==
  KeepIndices(t, {i \in DOMAIN t : ~ \E j \in 1..(i - 1) : IsDuplicate(t[j], t[i])})

\* Variant: dropna(subset = ['province']).
DropnaProvinceOnly(t) ==
  KeepIndices(t, {i \in DOMAIN t : ~ isnull(t[i].province)})

\* df.dropna(subset = ['province', 'variety'])
dropna(t) ==
  KeepIndices(t, {i \in DOMAIN t : ~ isnull(t[i].province) /\ ~ isnull(t[i].variety)})

\* Variant: the cell without its drop_duplicates line.
DropnaOnly(t) == dropna(t)

CleanerTable(t) == dropna(drop_duplicates(t))

-----------------------------------------------------------------------------
(* Label Builder *)

\* Variant: the two columns joined the other way round.
LabelVarietyFirst(p, v) == v \o "_" \o p

\* df['province'] + '_' + df['variety'] for one row (NaN if either is NaN)
Label(p, v) == IF isnull(p) \/ isnull(v) THEN NaN ELSE p \o "_" \o v

LabelBuilderTable(t) ==
  [i \in DOMAIN t |->
     [id |-> t[i].id, description |-> t[i].description, points |-> t[i].points,
      province |-> t[i].province, variety |-> t[i].variety,
      prov_var |-> Label(t[i].province, t[i].variety)]]

-----------------------------------------------------------------------------
(* Class Selector *)

selected_red ==
  << "California_Pinot Noir",
     "California_Cabernet Sauvignon",
     "Oregon_Pinot Noir",
     "Washington_Cabernet Sauvignon",
     "Washington_Syrah",
     "Piedmont_Nebbiolo",
     "Piedmont_Barbera",
     "Tuscany_Sangiovese",
     "Veneto_Corvina, Rondinella, Molinara",
     "Bordeaux_Bordeaux-style Red Blend",
     "Burgundy_Pinot Noir",
     "Beaujolais_Gamay",
     "Rh??ne Valley_Rh??ne-style Red Blend",
     "Douro_Portuguese Red",
     "Northern Spain_Tempranillo",
     "Mendoza Province_Malbec",
     "South Australia_Shiraz" >>

selected_white ==
  << "California_Chardonnay",
     "Oregon_Chardonnay",
     "Oregon_Pinot Gris",
     "Washington_Riesling",
     "Mosel_Riesling",
     "Burgundy_Chardonnay",
     "Bordeaux_Bordeaux-style White Blend",
     "Loire Valley_Sauvignon Blanc",
     "Alsace_Riesling",
     "Alsace_Gew??rztraminer",
     "Alsace_Pinot Gris",
     "Northeastern Italy_Pinot Grigio",
     "Marlborough_Sauvignon Blanc" >>

selected_spark ==
  << "Champagne_Champagne Blend",
     "California_Sparkling Blend",
     "Veneto_Glera",
     "Catalonia_Sparkling Blend" >>

\* Series.isin(lst)
isin(v, lst) == \E i \in DOMAIN lst : lst[i] = v

\* Variant: the mask negated.
SelectNotIn(t, lst) ==
  LET kept == KeepIndices(t, {i \in DOMAIN t : ~ isin(t[i].prov_var, lst)})
  IN [i \in DOMAIN kept |->
        [id |-> kept[i].id, description |-> kept[i].description,
         prov_var |-> kept[i].prov_var]]

\* df[df.prov_var.isin(lst)][['id', 'description', 'prov_var']], with the table
\* the global df holds at the call
df_select(t, lst) ==
  LET kept == KeepIndices(t, {i \in DOMAIN t : isin(t[i].prov_var, lst)})
  IN [i \in DOMAIN kept |->
        [id |-> kept[i].id, description |-> kept[i].description,
         prov_var |-> kept[i].prov_var]]

-----------------------------------------------------------------------------
(* Label codes *)

\* The characters of the model's texts in code point order; Ord is a
\* character's rank in it, which orders characters as Python orders them.
CodePoints ==
  " &,-.0123456789?ABCDEFGHIJKLMNOPQRSTUVWXYZ_abcdefghijklmnopqrstuvwxyz"

Ord(c) == CHOOSE i \in 1..Len(CodePoints) : Char(CodePoints, i) = c

\* a < b for Python strings
RECURSIVE StrLess(_, _)
StrLess(a, b) ==
  IF Len(b) = 0 THEN FALSE
  ELSE IF Len(a) = 0 THEN TRUE
  ELSE IF Char(a, 1) = Char(b, 1)
       THEN StrLess(SubSeq(a, 2, Len(a)), SubSeq(b, 2, Len(b)))
       ELSE Ord(Char(a, 1)) < Ord(Char(b, 1))

Labels(t) == {t[i].prov_var : i \in DOMAIN t}

\* Variant: the categories counted up to and including the label (codes from 1).
CodeFromOne(t, label) ==
  Cardinality({l \in Labels(t) : ~ StrLess(label, l)})

\* pd.Categorical(values).codes: the categories are the distinct values in
\* sorted order, and a value's code is the index of its category.
CategoricalCode(t, label) ==
  Cardinality({l \in Labels(t) : StrLess(l, label)})

WithCodes(t) ==
  [i \in DOMAIN t |->
     [id |-> t[i].id, description |-> t[i].description, prov_var |-> t[i].prov_var,
      prov_var_code |-> CategoricalCode(t, t[i].prov_var)]]

\* df_red.drop_duplicates(['prov_var', 'prov_var_code'])[[...]].values.tolist()
ClassMapOf(t) ==
  LET kept == KeepIndices(t, {i \in DOMAIN t : ~ \E j \in 1..(i - 1) :
                   /\ t[j].prov_var = t[i].prov_var
                   /\ t[j].prov_var_code = t[i].prov_var_code})
  IN [i \in DOMAIN kept |-> <<kept[i].prov_var, kept[i].prov_var_code>>]

Column(t, c) == [i \in DOMAIN t |-> t[i][c]]

-----------------------------------------------------------------------------
(* The fitted objects *)

MaxVocab == 1

MaxFeatures == 11

\* A name not bound yet.
Unbound == [kind |-> "unbound", object |-> 0]

\* TfidfVectorizer(...) fitted on a non-empty list of documents: a new object
\* whose vocabulary has n terms; term j of the vocabulary is written j.
FittedVectorizer(previous, n) ==
  [kind |-> "TfidfVectorizer", object |-> previous.object + 1,
   vocabulary |-> [j \in 1..n |-> j]]

\* vectorizer.get_feature_names_out(): the terms in vocabulary order
get_feature_names_out(v) == v.vocabulary

\* MultinomialNB / SGDClassifier fitted on (X_vect, y): a new object with the
\* sorted codes of y as its classes and one weight row (feature_log_prob_,
\* coef_) per class, of the width of the matrix it was fitted on.
FittedClassifier(kind, v, codes, w) ==
  [kind |-> kind, fitted_on |-> v.object, classes |-> codes, weights |-> w]

\* The weights a fit may produce in the pipeline: two patterns per shape.
PipelineWeights(codes, n) ==
  { [c \in codes |-> [j \in 1..n |-> (c + j * s) % 2]] : s \in 0..1 }

Reverse(row) == [j \in DOMAIN row |-> row[Len(row) + 1 - j]]

Complement(row) == [j \in DOMAIN row |-> 1 - row[j]]

\* The weights of the descriptor study: for two classes, every 0/1 row for
\* code 0, and for code 1 that row reversed or complemented.
StudyWeights(n) ==
  { [c \in {0, 1} |-> IF c = 0 THEN r ELSE IF m = 0 THEN Reverse(r) ELSE Complement(r)] :
      r \in [1..n -> {0, 1}], m \in {0, 1} }

-----------------------------------------------------------------------------
(* Descriptor Reporter *)

TopN == 10

\* list(zip(feature_names, row))
zip(names, row) ==
  [j \in 1..(IF Len(names) < Len(row) THEN Len(names) ELSE Len(row)) |->
     <<names[j], row[j]>>]

\* One step of a stable descending sort: x goes after every element whose
\* key is at least its own.
InsertDescending(sorted, x) ==
  LET n == Cardinality({i \in DOMAIN sorted : sorted[i][2] >= x[2]})
  IN SubSeq(sorted, 1, n) \o <<x>> \o SubSeq(sorted, n + 1, Len(sorted))

\* Variant: ascending order (reverse = True left out).
InsertAscending(sorted, x) ==
  LET n == Cardinality({i \in DOMAIN sorted : sorted[i][2] <= x[2]})
  IN SubSeq(sorted, 1, n) \o <<x>> \o SubSeq(sorted, n + 1, Len(sorted))

\* Variant: sorted(feature_map, key = ...) without reverse = True.
SortedAscending(fm) ==
  LET F[i \in 0..Len(fm)] == IF i = 0 THEN << >> ELSE InsertAscending(F[i - 1], fm[i])
  IN F[Len(fm)]

\* sorted(feature_map, key = lambda t: t[1], reverse = True): descending by
\* weight, elements of equal weight in their original order.
sorted_reverse(fm) ==
  LET F[i \in 0..Len(fm)] == IF i = 0 THEN << >> ELSE InsertDescending(F[i - 1], fm[i])
  IN F[Len(fm)]

\* s[:n]
Slice(s, n) == SubSeq(s, 1, IF Len(s) < n THEN Len(s) ELSE n)

\* The loop over class_map: for each entry the label and the names printed.
DescriptorsOf(cm, names, weights) ==
  [i \in DOMAIN cm |->
     LET feature_map == zip(names, weights[cm[i][2]])
         top == Slice(sorted_reverse(feature_map), TopN)
     IN [label |-> cm[i][1], top |-> [j \in DOMAIN top |-> top[j][1]]]]

-----------------------------------------------------------------------------
(* Predictor *)

test_input ==
  << "Bright strawberry and cherry aromas and flavors. Light wine with a tart finish.",
     "Dark fruit flavors with notes of smoked meat, dried hers and earth." >>

\* list(c[0] for c in class_map if c[1] in result)
PrintedLabels(cm, res) ==
  LET sel == SelectSeq(cm, LAMBDA c : c[2] \in Range(res))
  IN [i \in DOMAIN sel |-> sel[i][1]]

-----------------------------------------------------------------------------
(* Inputs *)

\* Rows a raw file may hold (without the id, which is the file's index column).
RawRows ==
  << [description |-> "Oregon cherry, tart", points |-> 1,
      province |-> "Oregon", variety |-> "Pinot Noir"],
     [description |-> "Oregon cherry. tart", points |-> 1,
      province |-> "Oregon", variety |-> "Pinot Noir"],
     [description |-> "Noir cola", points |-> 1,
      province |-> "California", variety |-> "Pinot Noir"],
     [description |-> "Gamay fruit", points |-> 2,
      province |-> "Beaujolais", variety |-> "Gamay"],
     [description |-> "plum-y Blend", points |-> 1,
      province |-> "Bordeaux", variety |-> "Bordeaux-style Red Blend"],
     [description |-> "oak", points |-> 1,
      province |-> "California", variety |-> "Chardonnay"],
     [description |-> "dry", points |-> 1,
      province |-> NaN, variety |-> "Gamay"],
     [description |-> "dry", points |-> 1,
      province |-> "Oregon", variety |-> NaN] >>

WithId(row, i) ==
  [id |-> i, description |-> row.description, points |-> row.points,
   province |-> row.province, variety |-> row.variety]

\* The tables of at most MaxRows rows, ids 0, 1, ... in file order.
RawTables ==
  UNION { { [i \in 1..n |-> WithId(RawRows[f[i]], i - 1)] :
              f \in [1..n -> DOMAIN RawRows] } : n \in 0..MaxRows }

Alphabet == {"a", " ", ","}

RECURSIVE StrsOfLen(_)
StrsOfLen(n) ==
  IF n = 0 THEN {""} ELSE {s \o c : s \in StrsOfLen(n - 1), c \in Alphabet}

\* The non-empty strings over Alphabet of length at most n
Strs(n) == UNION {StrsOfLen(k) : k \in 1..n}

\* One-row tables over every short description, province and variety.
StrTables ==
  { << [id |-> 0, description |-> d, points |-> 1, province |-> p, variety |-> v] >> :
      d \in Strs(MaxDescLen), p \in Strs(MaxFieldLen), v \in Strs(MaxFieldLen) }

\* Field values of the pair study: words a, b, c and a_, b_ on single and
\* doubled spaces, with the separator character in some provinces and
\* varieties.
PairDescriptions == {"a b a c", "c a_ c", "b  c", "a"}

PairProvinces == {"a", "a_", "b c"}

PairVarieties == {"b", "_b", "a"}

PairRows ==
  { [description |-> d, points |-> 1, province |-> p, variety |-> v] :
      d \in PairDescriptions, p \in PairProvinces, v \in PairVarieties }

\* The tables of one or two of these rows
PairTables ==
  { << WithId(r, 0) >> : r \in PairRows }
    \cup { << WithId(r, 0), WithId(q, 1) >> : r \in PairRows, q \in PairRows }

-----------------------------------------------------------------------------
(* The notebook: its steps in cell order *)

\* Variant: the label cell placed before the leakage filter cell.
LabelBeforeFilterOrder ==
  << "Loader", "Cleaner", "LabelBuilder", "LeakageFilter", "ClassSelector",
     "ExploreVectorizer", "LabelCodes", "GridSearchNB", "TrainNB",
     "DescriptorsNB", "Predictor", "GridSearchSGD", "TrainSGD", "DescriptorsSGD" >>

CellOrder ==
  << "Loader", "Cleaner", "LeakageFilter", "LabelBuilder", "ClassSelector",
     "ExploreVectorizer", "LabelCodes", "GridSearchNB", "TrainNB",
     "DescriptorsNB", "Predictor", "GridSearchSGD", "TrainSGD", "DescriptorsSGD" >>

IndexOf(name) == CHOOSE i \in DOMAIN CellOrder : CellOrder[i] = name

At(name) ==
  /\ error = ""
  /\ pc \in DOMAIN CellOrder
  /\ CellOrder[pc] = name

Advance(name) ==
  /\ pc' = pc + 1
  /\ stages' = Append(stages, name)

Init ==
  /\ pc = 1
  /\ error = ""
  /\ stages = << >>
  /\ raw = << >>
  /\ df = << >>
  /\ df_red = << >>
  /\ df_white = << >>
  /\ df_spark = << >>
  /\ class_map = << >>
  /\ X = << >>
  /\ y = << >>
  /\ vectorizer = Unbound
  /\ clf = Unbound
  /\ feature_names = << >>
  /\ descriptors = << >>
  /\ result = << >>
  /\ prediction = << >>

\* read_csv and rename: df is the file's table
Load(t) ==
  /\ Advance("Loader")
  /\ raw' = t
  /\ df' = t
  /\ UNCHANGED <<error, df_red, df_white, df_spark, class_map, X, y, vectorizer,
                 clf, feature_names, descriptors, result, prediction>>

Loader == At("Loader") /\ \E t \in RawTables : Load(t)

LoaderStr == At("Loader") /\ \E t \in StrTables : Load(t)

LoaderPair == At("Loader") /\ \E t \in PairTables : Load(t)

\* drop_duplicates, then dropna, both in place
Cleaner ==
  /\ At("Cleaner")
  /\ Advance("Cleaner")
  /\ df' = CleanerTable(df)
  /\ UNCHANGED <<error, raw, df_red, df_white, df_spark, class_map, X, y,
                 vectorizer, clf, feature_names, descriptors, result, prediction>>

\* df.replace, then the two removal passes
LeakageFilter ==
  /\ At("LeakageFilter")
  /\ Advance("LeakageFilter")
  /\ df' = LeakageFilterTable(df)
  /\ UNCHANGED <<error, raw, df_red, df_white, df_spark, class_map, X, y,
                 vectorizer, clf, feature_names, descriptors, result, prediction>>

\* df['prov_var'] = ...
LabelBuilder ==
  /\ At("LabelBuilder")
  /\ Advance("LabelBuilder")
  /\ df' = LabelBuilderTable(df)
  /\ UNCHANGED <<error, raw, df_red, df_white, df_spark, class_map, X, y,
                 vectorizer, clf, feature_names, descriptors, result, prediction>>

\* df_red, df_white, df_spark = df_select(...)
ClassSelector ==
  /\ At("ClassSelector")
  /\ Advance("ClassSelector")
  /\ df_red' = df_select(df, selected_red)
  /\ df_white' = df_select(df, selected_white)
  /\ df_spark' = df_select(df, selected_spark)
  /\ UNCHANGED <<error, raw, df, class_map, X, y, vectorizer, clf, feature_names,
                 descriptors, result, prediction>>

\* The exploration vectorizer, fitted on df_red['description']. Fitting on no
\* documents raises ValueError (empty vocabulary), which ends the run.
ExploreVectorizer ==
  /\ At("ExploreVectorizer")
  /\ \/ /\ df_red = << >>
        /\ error' = "ValueError"
        /\ UNCHANGED <<pc, stages, vectorizer>>
     \/ /\ df_red # << >>
        /\ Advance("ExploreVectorizer")
        /\ \E n \in 1..MaxVocab : vectorizer' = FittedVectorizer(vectorizer, n)
        /\ UNCHANGED error
  /\ UNCHANGED <<raw, df, df_red, df_white, df_spark, class_map, X, y, clf,
                 feature_names, descriptors, result, prediction>>

\* prov_var_code, class_map, X and y
LabelCodes ==
  /\ At("LabelCodes")
  /\ Advance("LabelCodes")
  /\ df_red' = WithCodes(df_red)
  /\ class_map' = ClassMapOf(df_red')
  /\ X' = Column(df_red', "description")
  /\ y' = Column(df_red', "prov_var_code")
  /\ UNCHANGED <<error, raw, df, df_white, df_spark, vectorizer, clf,
                 feature_names, descriptors, result, prediction>>

\* GridSearchCV(pipe, ...).fit(X, y): fits its own copies of the pipeline; the
\* names vectorizer and clf are not touched.
GridSearch(name) ==
  /\ At(name)
  /\ Advance(name)
  /\ UNCHANGED <<error, raw, df, df_red, df_white, df_spark, class_map, X, y,
                 vectorizer, clf, feature_names, descriptors, result, prediction>>

GridSearchNB == GridSearch("GridSearchNB")

GridSearchSGD == GridSearch("GridSearchSGD")

\* The sorted distinct codes of y, as a list and as a set
ClassesOf(codes) == [i \in 1..Cardinality(Range(codes)) |-> i - 1]

\* Variant: the new vectorizer fitted and used for X_vect without being bound
\* to the name vectorizer, which keeps the earlier object.
TrainKeepingVectorizer(name, kind) ==
  /\ At(name)
  /\ Advance(name)
  /\ \E n \in 1..MaxVocab :
       \E w \in PipelineWeights(Range(y), n) :
         clf' = FittedClassifier(kind, FittedVectorizer(vectorizer, n), ClassesOf(y), w)
  /\ UNCHANGED <<error, raw, df, df_red, df_white, df_spark, class_map, X, y,
                 vectorizer, feature_names, descriptors, result, prediction>>

\* vectorizer = TfidfVectorizer(...); X_vect = vectorizer.fit_transform(X);
\* clf = <classifier>.fit(X_vect, y)
Train(name, kind) ==
  /\ At(name)
  /\ Advance(name)
  /\ \E n \in 1..MaxVocab :
       /\ vectorizer' = FittedVectorizer(vectorizer, n)
       /\ \E w \in PipelineWeights(Range(y), n) :
            clf' = FittedClassifier(kind, vectorizer', ClassesOf(y), w)
  /\ UNCHANGED <<error, raw, df, df_red, df_white, df_spark, class_map, X, y,
                 feature_names, descriptors, result, prediction>>

TrainNB == Train("TrainNB", "MultinomialNB")

TrainSGD == Train("TrainSGD", "SGDClassifier")

\* feature_names = ...; for cl in class_map: print the top of the class's row
Descriptors(name) ==
  /\ At(name)
  /\ Advance(name)
  /\ feature_names' = get_feature_names_out(vectorizer)
  /\ descriptors' = DescriptorsOf(class_map, feature_names', clf.weights)
  /\ UNCHANGED <<error, raw, df, df_red, df_white, df_spark, class_map, X, y,
                 vectorizer, clf, result, prediction>>

DescriptorsNB == Descriptors("DescriptorsNB")

DescriptorsSGD == Descriptors("DescriptorsSGD")

\* Variant: fit_transform in place of transform, which fits the vectorizer anew.
PredictorRefitting ==
  /\ At("Predictor")
  /\ Advance("Predictor")
  /\ vectorizer' = FittedVectorizer(vectorizer, Len(vectorizer.vocabulary))
  /\ \E r \in [DOMAIN test_input -> Range(clf.classes)] :
       /\ result' = r
       /\ prediction' = PrintedLabels(class_map, r)
  /\ UNCHANGED <<error, raw, df, df_red, df_white, df_spark, class_map, X, y,
                 clf, feature_names, descriptors>>

\* result = list(clf.predict(vectorizer.transform(test_input))), then the
\* print: transform and predict read the fitted objects and return one code of
\* clf.classes_ per input.
Predictor ==
  /\ At("Predictor")
  /\ Advance("Predictor")
  /\ \E r \in [DOMAIN test_input -> Range(clf.classes)] :
       /\ result' = r
       /\ prediction' = PrintedLabels(class_map, r)
  /\ UNCHANGED <<error, raw, df, df_red, df_white, df_spark, class_map, X, y,
                 vectorizer, clf, feature_names, descriptors>>

Next ==
  \/ Loader
  \/ Cleaner
  \/ LeakageFilter
  \/ LabelBuilder
  \/ ClassSelector
  \/ ExploreVectorizer
  \/ LabelCodes
  \/ GridSearchNB
  \/ TrainNB
  \/ DescriptorsNB
  \/ Predictor
  \/ GridSearchSGD
  \/ TrainSGD
  \/ DescriptorsSGD

\* The notebook run on any raw table of RawTables
Spec == Init /\ [][Next]_vars

NextStr ==
  \/ LoaderStr
  \/ Cleaner
  \/ LeakageFilter
  \/ LabelBuilder

\* The data preparation run on every one-row table of short strings
SpecStr == Init /\ [][NextStr]_vars

NextPair ==
  \/ LoaderPair
  \/ Cleaner
  \/ LeakageFilter
  \/ LabelBuilder

\* The data preparation run on every table of PairTables
SpecPair == Init /\ [][NextPair]_vars

-----------------------------------------------------------------------------
(* The descriptor study: the notebook run on one two-class table, up to a  *)
(* fitted classifier, with every weight matrix of StudyWeights             *)

StudyRaw == << WithId(RawRows[1], 0), WithId(RawRows[4], 1) >>

StudyDf == LabelBuilderTable(LeakageFilterTable(CleanerTable(StudyRaw)))

StudyRed == WithCodes(df_select(StudyDf, selected_red))

\* The first fit of the run: the exploration vectorizer
StudyExplore == FittedVectorizer(Unbound, 1)

\* The state the run is in before the step `name`, the data cells done.
StudyAt(name) ==
  /\ pc = IndexOf(name)
  /\ error = ""
  /\ stages = SubSeq(CellOrder, 1, IndexOf(name) - 1)
  /\ raw = StudyRaw
  /\ df = StudyDf
  /\ df_red = StudyRed
  /\ df_white = df_select(StudyDf, selected_white)
  /\ df_spark = df_select(StudyDf, selected_spark)
  /\ class_map = ClassMapOf(StudyRed)
  /\ X = Column(StudyRed, "description")
  /\ y = Column(StudyRed, "prov_var_code")

\* Before the Naive Bayes descriptor cell
InitStudyNB ==
  /\ StudyAt("DescriptorsNB")
  /\ \E n \in 1..MaxFeatures :
       /\ vectorizer = FittedVectorizer(StudyExplore, n)
       /\ \E w \in StudyWeights(n) :
            clf = FittedClassifier("MultinomialNB", vectorizer, ClassesOf(y), w)
  /\ feature_names = << >>
  /\ descriptors = << >>
  /\ result = << >>
  /\ prediction = << >>

\* Before the SGD descriptor cell, the Naive Bayes part of the run having
\* fitted a one-term vocabulary and predicted code 0 twice
InitStudySGD ==
  /\ StudyAt("DescriptorsSGD")
  /\ \E n \in 1..MaxFeatures :
       /\ vectorizer = FittedVectorizer(FittedVectorizer(StudyExplore, 1), n)
       /\ \E w \in StudyWeights(n) :
            clf = FittedClassifier("SGDClassifier", vectorizer, ClassesOf(y), w)
  /\ feature_names = <<1>>
  /\ descriptors = DescriptorsOf(class_map, <<1>>, [c \in {0, 1} |-> <<0>>])
  /\ result = <<0, 0>>
  /\ prediction = PrintedLabels(class_map, <<0, 0>>)

InitStudy == InitStudyNB \/ InitStudySGD

NextStudy ==
  \/ DescriptorsNB
  \/ DescriptorsSGD

SpecStudy == InitStudy /\ [][NextStudy]_vars

-----------------------------------------------------------------------------
(* Properties *)

Ran(name) == \E i \in DOMAIN stages : stages[i] = name

LastRan(name) == Len(stages) > 0 /\ stages[Len(stages)] = name

Tokens(s) == Range(split(s))

\* The row of the raw table that became row i of df
RawOf(i) == raw[df[i].id + 1]

\* C1, as claimed: once the Leakage Filter has run, no token of a row's variety
\* or province (split on a single space) is among the tokens of that row's
\* filtered description.
C1_NoLabelToken ==
  Ran("LeakageFilter") =>
    \A i \in DOMAIN df :
      Tokens(df[i].description) \cap (Tokens(df[i].variety) \cup Tokens(df[i].province)) = {}

\* C1, amended: once the Leakage Filter has run, a token of a row's filtered
\* description is a token of that row's variety or province only if it is the
\* empty token of an empty filtered description (''.split(' ') is ['']).
C1_NoLabelTokenButEmpty ==
  Ran("LeakageFilter") =>
    \A i \in DOMAIN df :
      \A t \in Tokens(df[i].description) :
        t \in (Tokens(df[i].variety) \cup Tokens(df[i].province)) =>
          (t = "" /\ df[i].description = "")

\* Both passes removed something from a row.
C1_Witness ==
  /\ LastRan("LeakageFilter")
  /\ \E i \in DOMAIN df :
       LET d0 == re_sub(RawOf(i).description)
           d1 == remove_tokens(d0, df[i].variety)
       IN d1 # d0 /\ df[i].description # d1

\* C4: once the Label Builder has run, every row's prov_var is its province,
\* then '_', then its variety, and building the label again from the same two
\* values gives the same string.
C4_LabelIsConcatenation ==
  Ran("LabelBuilder") =>
    \A i \in DOMAIN df :
      /\ df[i].prov_var = df[i].province \o "_" \o df[i].variety
      /\ Label(df[i].province, df[i].variety) = df[i].prov_var

\* A labelled row whose province and variety differ.
C4_Witness ==
  /\ LastRan("LabelBuilder")
  /\ \E i \in DOMAIN df : df[i].province # df[i].variety /\ Len(df[i].prov_var) > 2

\* C2: right after the Cleaner every row has a province and a variety, and no
\* two rows are equal on all columns other than id.
C2_CleanerPostcondition ==
  LastRan("Cleaner") =>
    /\ \A i \in DOMAIN df : df[i].province # NaN /\ df[i].variety # NaN
    /\ \A i, j \in DOMAIN df :
         i # j => \E c \in {"description", "points", "province", "variety"} :
                    df[i][c] # df[j][c]

\* The raw table held a duplicate pair and a row without province, and rows
\* survived.
C2_Witness ==
  /\ LastRan("Cleaner")
  /\ Len(df) >= 1
  /\ \E i, j \in DOMAIN raw :
       /\ i < j
       /\ raw[i].province # NaN /\ raw[i].variety # NaN
       /\ \A c \in {"description", "points", "province", "variety"} : raw[i][c] = raw[j][c]
  /\ \E k \in DOMAIN raw : raw[k].province = NaN

Ids(t) == {t[i].id : i \in DOMAIN t}

IdsLabelledIn(t, labels) == {t[i].id : i \in {j \in DOMAIN t : t[j].prov_var \in labels}}

\* Allow-lists of at most two entries over the labels of the table and one
\* label no row carries
SmallLists ==
  LET u == Labels(df) \cup {"Mosel_Riesling"}
  IN UNION {[1..n -> u] : n \in 0..2}

\* C3: for the three allow-lists of the notebook and for every small
\* allow-list, the labels of df_select(lst) are the labels of the table that
\* are in lst, and the rows kept are exactly the rows whose label is in lst.
C3_SelectorIsIntersection ==
  Ran("ClassSelector") =>
    /\ \A p \in { <<df_red, selected_red>>, <<df_white, selected_white>>,
                  <<df_spark, selected_spark>> } :
         /\ Labels(p[1]) = Labels(df) \cap Range(p[2])
         /\ Ids(p[1]) = IdsLabelledIn(df, Range(p[2]))
         /\ Len(p[1]) = Cardinality(Ids(p[1]))
    /\ LastRan("ClassSelector") =>
         \A lst \in SmallLists :
           /\ Labels(df_select(df, lst)) = Labels(df) \cap Range(lst)
           /\ Ids(df_select(df, lst)) = IdsLabelledIn(df, Range(lst))

\* The selector kept some rows for red and for white, and left some out.
C3_Witness ==
  /\ LastRan("ClassSelector")
  /\ df_red # << >>
  /\ df_white # << >>
  /\ Len(df_red) + Len(df_white) < Len(df)

\* The labels of the class counts the notebook shows for df_red
RedLabels14 ==
  { "California_Pinot Noir", "California_Cabernet Sauvignon", "Oregon_Pinot Noir",
    "Piedmont_Nebbiolo", "Tuscany_Sangiovese", "Burgundy_Pinot Noir",
    "Mendoza Province_Malbec", "Washington_Cabernet Sauvignon",
    "Northern Spain_Tempranillo", "Washington_Syrah", "Beaujolais_Gamay",
    "Douro_Portuguese Red", "Piedmont_Barbera", "South Australia_Shiraz" }

C7_CodesAreDenseBijection ==
  Ran("LabelCodes") =>
    LET k == Cardinality(Labels(df_red))
    IN /\ {df_red[i].prov_var_code : i \in DOMAIN df_red} = 0..(k - 1)
       /\ \A i, j \in DOMAIN df_red :
            (df_red[i].prov_var = df_red[j].prov_var)
              <=> (df_red[i].prov_var_code = df_red[j].prov_var_code)
       /\ Len(class_map) = k
       /\ Range(class_map) = {<<df_red[i].prov_var, df_red[i].prov_var_code>> : i \in DOMAIN df_red}
       /\ {class_map[i][1] : i \in DOMAIN class_map} = Labels(df_red)
       /\ {class_map[i][2] : i \in DOMAIN class_map} = 0..(k - 1)

\* Three classes, and the first one met in df_red is not the one coded 0.
C7_Witness ==
  /\ LastRan("LabelCodes")
  /\ Len(class_map) = 3
  /\ class_map[1][2] # 0

\* C5: after the prediction cell the printed list has one entry per input,
\* and its i-th entry is the label class_map pairs with the code predicted
\* for the i-th input.
C5_OneLabelPerInput ==
  LastRan("Predictor") =>
    /\ Len(prediction) = Len(test_input)
    /\ \A i \in DOMAIN prediction :
         i \in DOMAIN result /\ <<prediction[i], result[i]>> \in Range(class_map)

Min(a, b) == IF a < b THEN a ELSE b

StageOf(step) ==
  CASE step = "ExploreVectorizer" -> "Vectorizer"
    [] step \in {"LabelCodes", "GridSearchNB", "TrainNB", "GridSearchSGD", "TrainSGD"}
         -> "ClassifierTrainer"
    [] step \in {"DescriptorsNB", "DescriptorsSGD"} -> "DescriptorReporter"
    [] OTHER -> step

\* The stages in the order of their first runs
FirstRuns ==
  LET F[i \in 0..Len(stages)] ==
        IF i = 0 THEN << >>
        ELSE LET before == F[i - 1]
             IN IF StageOf(stages[i]) \in Range(before) THEN before
                ELSE Append(before, StageOf(stages[i]))
  IN F[Len(stages)]

IsPrefix(s, t) == Len(s) <= Len(t) /\ SubSeq(t, 1, Len(s)) = s

\* C9, as claimed: the stages first run in the order Loader, Cleaner, Label
\* Builder, Leakage Filter, Class Selector, Vectorizer, Classifier Trainer, then
\* Descriptor Reporter and Predictor; the Label Builder reads the Cleaner's
\* output, so the label it builds joins the province and variety of the raw row.
C9_LabelBeforeFilter ==
  /\ \/ IsPrefix(FirstRuns, << "Loader", "Cleaner", "LabelBuilder", "LeakageFilter",
                               "ClassSelector", "Vectorizer", "ClassifierTrainer",
                               "DescriptorReporter", "Predictor" >>)
     \/ IsPrefix(FirstRuns, << "Loader", "Cleaner", "LabelBuilder", "LeakageFilter",
                               "ClassSelector", "Vectorizer", "ClassifierTrainer",
                               "Predictor", "DescriptorReporter" >>)
  /\ LastRan("LabelBuilder") =>
       \A i \in DOMAIN df : df[i].prov_var = RawOf(i).province \o "_" \o RawOf(i).variety

\* C9, amended: the stages first run in the order Loader, Cleaner, Leakage
\* Filter, Label Builder, Class Selector, Vectorizer, Classifier Trainer,
\* Descriptor Reporter, Predictor; the Label Builder reads the Leakage Filter's
\* output, so the label it builds joins the punctuation-normalized province
\* and variety.
C9_FilterBeforeLabel ==
  /\ IsPrefix(FirstRuns, << "Loader", "Cleaner", "LeakageFilter", "LabelBuilder",
                            "ClassSelector", "Vectorizer", "ClassifierTrainer",
                            "DescriptorReporter", "Predictor" >>)
  /\ LastRan("LabelBuilder") =>
       \A i \in DOMAIN df :
         df[i].prov_var = re_sub(RawOf(i).province) \o "_" \o re_sub(RawOf(i).variety)

\* The whole notebook has run on a table with a Bordeaux-style row in it.
C9_Witness ==
  /\ LastRan("DescriptorsSGD")
  /\ Len(FirstRuns) = 9
  /\ \E i \in DOMAIN df : RawOf(i).variety # df[i].variety

\* C10: the prediction cell leaves the fitted vectorizer (its vocabulary and
\* weights), the fitted classifier and class_map as they were.
C10_PredictionReadsOnly ==
  [][At("Predictor") => UNCHANGED <<vectorizer, clf, class_map>>]_vars

\* The prediction cell has run with a fitted vectorizer and classifier.
C10_Witness ==
  /\ LastRan("Predictor")
  /\ Len(result) = 2
  /\ vectorizer.kind = "TfidfVectorizer"
  /\ clf.kind = "MultinomialNB"
  /\ clf.fitted_on = vectorizer.object

-----------------------------------------------------------------------------
(* The two removal passes as one relation between a row's texts *)

\* The tokens of a that are tokens neither of v nor of p, joined: a single
\* pass over the union of the two token sets
UnionPass(a, v, p) ==
  join(SelectSeq(split(a), LAMBDA x : x \notin (Tokens(v) \cup Tokens(p))))

\* The two passes of the cell on one row, and the same two the other way round
VarietyThenProvince(a, v, p) ==
  RemovePasses(<< [description |-> a, variety |-> v, province |-> p] >>)[1].description

ProvinceThenVariety(a, v, p) ==
  RemovePasses(<< [description |-> a, variety |-> p, province |-> v] >>)[1].description

\* C11, as claimed: among the rows the Loader may read there is one whose
\* description, filtered by the variety pass and then the province pass,
\* differs from what a single pass over the union of the two token sets gives,
\* or from what the two passes give in the opposite order.
C11_OrderSensitive ==
  At("Loader") =>
    \E r \in PairRows :
      LET a == re_sub(r.description)
          v == re_sub(r.variety)
          p == re_sub(r.province)
      IN \/ VarietyThenProvince(a, v, p) # UnionPass(a, v, p)
         \/ VarietyThenProvince(a, v, p) # ProvinceThenVariety(a, v, p)

\* C11, amended: for every row, the description the Leakage Filter leaves is
\* what a single pass over the union of the variety's and the province's
\* tokens gives, and what the two passes give in the opposite order.
C11_OrderInsensitive ==
  LastRan("LeakageFilter") =>
    \A i \in DOMAIN df :
      LET a == re_sub(RawOf(i).description)
      IN /\ df[i].description = UnionPass(a, df[i].variety, df[i].province)
         /\ df[i].description = ProvinceThenVariety(a, df[i].variety, df[i].province)

\* Each pass removed a token from a row, and a token was left.
C11_Witness ==
  /\ LastRan("LeakageFilter")
  /\ \E i \in DOMAIN df :
       LET a == re_sub(RawOf(i).description)
           a1 == remove_tokens(a, df[i].variety)
       IN /\ Len(a1) < Len(a)
          /\ Len(df[i].description) < Len(a1)
          /\ df[i].description # ""

-----------------------------------------------------------------------------
(* Per-row filtering *)

\* How many times x occurs in a token list
Count(x, toks) == Cardinality({k \in DOMAIN toks : toks[k] = x})

\* The tokens of row i's own variety and province
OwnTokens(i) == Tokens(df[i].variety) \cup Tokens(df[i].province)

\* The tokens of the other rows' varieties and provinces
OtherTokens(i) ==
  UNION { Tokens(df[j].variety) \cup Tokens(df[j].province) : j \in DOMAIN df \ {i} }

\* C12: right after the Leakage Filter, every row's description is the join
\* of the tokens of its normalized description that are not tokens of that
\* row's variety or province, in their order and with their multiplicity (its
\* own token list is that list whenever a token is left), and a token that
\* occurs in another row's variety or province and not in the row's own occurs
\* in the filtered description as often as before.
C12_PerRowFilter ==
  LastRan("LeakageFilter") =>
    \A i \in DOMAIN df :
      LET before == split(re_sub(RawOf(i).description))
          kept == SelectSeq(before, LAMBDA x : x \notin OwnTokens(i))
          after == split(df[i].description)
      IN /\ df[i].description = join(kept)
         /\ kept # << >> => after = kept
         /\ \A x \in (OtherTokens(i) \ OwnTokens(i)) \cap Range(before) :
              Count(x, after) = Count(x, before)
         /\ df[i].province = re_sub(RawOf(i).province)
         /\ df[i].variety = re_sub(RawOf(i).variety)
         /\ df[i].points = RawOf(i).points

\* Two rows: the first lost a token of its own and kept, twice, a token that
\* only the second row's variety or province has.
C12_Witness ==
  /\ LastRan("LeakageFilter")
  /\ Len(df) = 2
  /\ Len(df[1].description) < Len(RawOf(1).description)
  /\ \E x \in OtherTokens(1) \ OwnTokens(1) :
       Count(x, split(df[1].description)) = 2

-----------------------------------------------------------------------------
(* Punctuation and the labels *)

\* s contains a comma, a period or a hyphen
HasCommaPeriodHyphen(s) == \E k \in 1..Len(s) : Char(s, k) \in {",", ".", "-"}

\* The label a row would have had, built from the file's own province and variety
RawLabel(i) == RawOf(i).province \o "_" \o RawOf(i).variety

-----------------------------------------------------------------------------
(* The names vectorizer and clf *)

\* The step about to run reads vectorizer and clf
AtUse == At("DescriptorsNB") \/ At("Predictor") \/ At("DescriptorsSGD")

\* C14: whenever a descriptor cell or the prediction cell is about to run,
\* vectorizer is a fitted vectorizer and clf the classifier fitted on that
\* very object's matrix (each weight row as wide as its vocabulary); the
\* object is the second fitted in the run for the Naive Bayes cells and the
\* third for the SGD cell, the earlier ones having been replaced; and the
\* cell leaves both names bound to the same objects.
C14_VectorizerAndClassifierPaired ==
  /\ AtUse =>
       /\ vectorizer.kind = "TfidfVectorizer"
       /\ clf.kind = (IF At("DescriptorsSGD") THEN "SGDClassifier" ELSE "MultinomialNB")
       /\ clf.fitted_on = vectorizer.object
       /\ vectorizer.object = (IF At("DescriptorsSGD") THEN 3 ELSE 2)
       /\ \A c \in DOMAIN clf.weights : Len(clf.weights[c]) = Len(vectorizer.vocabulary)
  /\ (LastRan("DescriptorsNB") \/ LastRan("Predictor") \/ LastRan("DescriptorsSGD")) =>
       /\ clf.fitted_on = vectorizer.object
       /\ Len(feature_names) = Len(vectorizer.vocabulary)

\* The SGD descriptor cell is about to run, after three fits of a vectorizer.
C14_Witness ==
  /\ At("DescriptorsSGD")
  /\ vectorizer.object = 3
  /\ clf.kind = "SGDClassifier"
  /\ Len(prediction) >= 1

-----------------------------------------------------------------------------
(* The Cleaner as a filter *)

\* Rows r and s hold the same values in every column of the file but id
SameRecord(r, s) ==
  \A c \in {"description", "points", "province", "variety"} : r[c] = s[c]

\* C15: right after the Cleaner no error has been raised; every row of the
\* table is the row of the file with its id, all values unchanged, and the
\* rows are in file order; and every row of the file that has a province and
\* a variety has exactly one row of the table equal to it on all columns but
\* id, which is the first such row of the file.
C15_CleanerOnlyFilters ==
  LastRan("Cleaner") =>
    /\ error = ""
    /\ \A i \in DOMAIN df : df[i].id + 1 \in DOMAIN raw /\ df[i] = RawOf(i)
    /\ \A i, j \in DOMAIN df : i < j => df[i].id < df[j].id
    /\ \A k \in DOMAIN raw :
         (raw[k].province # NaN /\ raw[k].variety # NaN) =>
           LET reps == {i \in DOMAIN df : SameRecord(df[i], raw[k])}
           IN /\ Cardinality(reps) = 1
              /\ \A i \in reps : \A j \in DOMAIN raw :
                   SameRecord(raw[j], raw[k]) => df[i].id <= raw[j].id

\* The file held a row three times and a row without variety; the first of
\* the three is the only row left.
C15_Witness ==
  /\ LastRan("Cleaner")
  /\ Len(raw) >= 3
  /\ SameRecord(raw[1], raw[2])
  /\ raw[1].variety # NaN
  /\ \E k \in DOMAIN raw : raw[k].variety = NaN
  /\ Len(df) = 1
  /\ df[1].id = 0

-----------------------------------------------------------------------------
(* Duplicates in the training subset *)

\* The row of the file that became row i of df_red
RawOfRed(i) == raw[df_red[i].id + 1]

\* C16, as claimed: once the Class Selector has run, no two rows of df_red
\* have the same description and the same composite label.
C16_NoDuplicatesInRed ==
  Ran("ClassSelector") =>
    \A i, j \in DOMAIN df_red :
      i # j => ~ (/\ df_red[i].description = df_red[j].description
                  /\ df_red[i].prov_var = df_red[j].prov_var)

\* C16, amended: once the Class Selector has run, no two rows of df_red have
\* the same id or come from rows of the file equal on all columns but id; two
\* rows with the same description and the same composite label come from rows
\* of the file that differ in description, points, province or variety.
C16_NoFileDuplicatesInRed ==
  Ran("ClassSelector") =>
    \A i, j \in DOMAIN df_red :
      i # j =>
        /\ df_red[i].id # df_red[j].id
        /\ ~ SameRecord(RawOfRed(i), RawOfRed(j))
        /\ (df_red[i].description = df_red[j].description
              /\ df_red[i].prov_var = df_red[j].prov_var)
             => \E c \in {"description", "points", "province", "variety"} :
                  RawOfRed(i)[c] # RawOfRed(j)[c]

\* Two rows of df_red with the same description and label, from rows of the
\* file whose descriptions differ in a punctuation mark; the file also held a
\* plain duplicate, which the Cleaner dropped.
C16_Witness ==
  /\ LastRan("ClassSelector")
  /\ Len(df_red) = 2
  /\ df_red[1].description = df_red[2].description
  /\ df_red[1].prov_var = df_red[2].prov_var
  /\ RawOfRed(1).description # RawOfRed(2).description
  /\ Len(raw) = 3
  /\ SameRecord(raw[1], raw[2])

-----------------------------------------------------------------------------
(* Labels and (province, variety) pairs *)

\* C17: once the labels are built, two rows of the table have the same
\* composite label exactly if they have the same province and the same
\* variety.
C17_OneLabelPerPair ==
  Ran("LabelBuilder") =>
    \A i, j \in DOMAIN df :
      (df[i].prov_var = df[j].prov_var)
        <=> (df[i].province = df[j].province /\ df[i].variety = df[j].variety)

====
